---- MODULE Spec2Model ----
(***************************************************************************)
(* A model of plato's lenient XML parser (XmlParser) and of its entity     *)
(* decoder (decode_entities), src/src/document/epub/xml.rs.                *)
(*                                                                         *)
(* Text is a sequence of characters; a character is a one-character        *)
(* string, except NBSP, which stands for U+00A0 (two bytes in UTF-8, and   *)
(* white space for char::is_whitespace).  Offsets are byte offsets, as in  *)
(* the code.  The recursion parse_nodes -> parse_element -> parse_nodes    *)
(* is an explicit stack of frames, and every iteration of a loop of the    *)
(* code is one step of the model.                                          *)
(***************************************************************************)
EXTENDS Integers, Sequences, FiniteSets, TLC

VARIABLES
    input,      \* XmlParser.input: the buffer
    offset,     \* XmlParser.offset: the cursor, a byte offset
    pc,         \* where the parser is: the loop or match about to run
    stack,      \* one frame per running parse_nodes: its nodes and its caller
    elem,       \* parse_element's locals: offset, name, attributes
    target,     \* advance_until's argument
    result,     \* what parse returned
    dtext,      \* decode_entities' argument
    cursor,     \* decode_entities: how many characters of dtext are consumed
    buf,        \* decode_entities: the output buffer
    dpc,        \* where the decoder is
    decoded,    \* what decode_entities returned
    given       \* how the input was put together (never read by the program)

vars == <<input, offset, pc, stack, elem, target, result,
          dtext, cursor, buf, dpc, decoded, given>>
parserVars == <<input, offset, pc, stack, elem, target, result>>
decoderVars == <<dtext, cursor, buf, dpc, decoded>>

\* Option::None, for next() and for a result not there yet.
None == "None"

\* U+00A0 NO-BREAK SPACE.
NBSP == "nbsp"

(***************************************************************************)
(* Characters.                                                             *)
(***************************************************************************)
\* char::len_utf8, on the characters of the model.
len_utf8(c) == IF c = NBSP THEN 2 ELSE 1

\* char::is_whitespace (the White_Space property), on the characters of the model.
is_whitespace(c) == c \in {" ", "\t", "\n", "\r", NBSP}

RECURSIVE SumLen(_, _, _)
\* The bytes of the characters s[i], ..., s[j].
SumLen(s, i, j) ==
    IF i > j THEN 0 ELSE len_utf8(s[i]) + SumLen(s, i + 1, j)

\* str::len: the length in bytes.
ByteLen(s) == SumLen(s, 1, Len(s))

RECURSIVE CharsBefore(_, _, _)
CharsBefore(i, acc, off) ==
    IF i > Len(input) \/ acc >= off
    THEN i - 1
    ELSE CharsBefore(i + 1, acc + len_utf8(input[i]), off)

\* How many characters of the input start before byte `off`.
CharIndex(off) == CharsBefore(1, 0, off)

\* str::is_char_boundary on the input.
is_char_boundary(off) == SumLen(input, 1, CharIndex(off)) = off

\* &self.input[from..to]
Slice(from, to) == SubSeq(input, CharIndex(from) + 1, CharIndex(to))

\* &self.input[off..]
Rest(off) == SubSeq(input, CharIndex(off) + 1, Len(input))

(***************************************************************************)
(* The cursor primitives, as functions of the offset they start from.      *)
(***************************************************************************)
\* Lines 22-24.
eof(off) == off >= ByteLen(input)

\* Lines 26-28.
next(off) ==
    LET i == CharIndex(off) + 1
    IN  IF i > Len(input) THEN None ELSE input[i]

\* Lines 30-32.
starts_with(off, s) ==
    LET i == CharIndex(off)
    IN  /\ Len(input) - i >= Len(s)
        /\ SubSeq(input, i + 1, i + Len(s)) = s

\* A cursor moved by n bytes, whatever is left and whatever the characters are.
advance_bytes(off, n) == off + n

\* Lines 34-38: n characters, or as many as are left.
advance(off, n) ==
    LET i == CharIndex(off)
        k == IF n < Len(input) - i THEN n ELSE Len(input) - i
    IN  off + SumLen(input, i + 1, i + k)

\* The characters of self.input.
Chars == {input[i] : i \in DOMAIN input}

\* Lines 40-44: the characters up to the first one that fails the test.
\* The closure `test` is a function from the characters of the input to BOOLEAN.
advance_while(off, test) ==
    LET i == CharIndex(off)
        stop == CHOOSE j \in (i + 1)..(Len(input) + 1) :
                    /\ j = Len(input) + 1 \/ ~test[input[j]]
                    /\ \A m \in (i + 1)..(j - 1) : test[input[m]]
    IN  off + SumLen(input, i + 1, stop - 1)

(***************************************************************************)
(* The document tree (dom.rs is not among the sources: the three           *)
(* constructors follow the data model of the specification).               *)
(***************************************************************************)
element(name, off, attributes, children) ==
    [kind |-> "Element", name |-> name, offset |-> off,
     attributes |-> attributes, children |-> children]

text(content, off) == [kind |-> "Text", text |-> content, offset |-> off]

whitespace(content, off) ==
    [kind |-> "Whitespace", text |-> content, offset |-> off]

\* FnvHashMap::default()
EmptyAttributes == [k \in {} |-> <<>>]

\* An insertion that keeps the value a key already has.
InsertIfAbsent(m, key, value) ==
    [k \in DOMAIN m \cup {key} |-> IF k \in DOMAIN m THEN m[k] ELSE value]

\* FnvHashMap::insert
Insert(m, key, value) ==
    [k \in DOMAIN m \cup {key} |-> IF k = key THEN value ELSE m[k]]

\* Vec::push on the nodes of the running parse_nodes.
PushNode(stk, node) ==
    [stk EXCEPT ![Len(stk)].nodes = Append(@, node)]

(***************************************************************************)
(* XmlParser::parse_nodes, one action per arm of its loop.                 *)
(***************************************************************************)
\* parse_element's locals when no element is being parsed.
NoElem == [offset |-> 0, name |-> <<>>, attributes |-> EmptyAttributes]

\* Line 108: the offset after the white space at the start of an iteration.
AfterSpace == advance_while(offset, [c \in Chars |-> is_whitespace(c)])

\* The Whitespace node given the cursor's offset instead of the saved one.
WithSpaceAtCursor(stk) ==
    IF AfterSpace > offset
    THEN PushNode(stk, whitespace(Slice(offset, AfterSpace), AfterSpace))
    ELSE stk

\* A Whitespace node pushed even when no white space was skipped.
WithSpaceAlways(stk) ==
    PushNode(stk, whitespace(Slice(offset, AfterSpace), offset))

\* Lines 112-114: the skipped white space becomes a Whitespace node.
WithSpace(stk) ==
    IF AfterSpace > offset
    THEN PushNode(stk, whitespace(Slice(offset, AfterSpace), offset))
    ELSE stk

\* Which arm of parse_nodes' loop runs (lines 106, 110, 115, 122).
AtNodesExit == pc = "parse_nodes" /\ (eof(offset) \/ next(AfterSpace) = None)

AtTag == pc = "parse_nodes" /\ ~eof(offset) /\ next(AfterSpace) = "<"

AtEndTag == AtTag /\ starts_with(AfterSpace, <<"<", "/">>)

AtMarkup ==
    /\ AtTag
    /\ ~starts_with(AfterSpace, <<"<", "/">>)
    /\ next(advance(AfterSpace, 1)) \in {"?", "!"}

AtElement ==
    /\ AtTag
    /\ ~starts_with(AfterSpace, <<"<", "/">>)
    /\ next(advance(AfterSpace, 1)) \notin {"?", "!"}

AtText == pc = "parse_nodes" /\ ~eof(offset) /\ next(AfterSpace) \notin {"<", None}

\* Line 106 (the loop's condition fails) and line 151 (None => break).
ParseNodesExit ==
    /\ AtNodesExit
    /\ offset' = AfterSpace
    /\ pc' = "return"
    /\ UNCHANGED <<input, stack, elem, target, result>>
    /\ UNCHANGED <<decoderVars, given>>

\* An end tag whose '>' is left unconsumed (line 118 missing).
ParseNodesEndTagKeepsGt ==
    /\ AtEndTag
    /\ stack' = WithSpace(stack)
    /\ offset' = advance_while(advance(AfterSpace, 2), [c \in Chars |-> c # ">"])
    /\ pc' = "return"
    /\ UNCHANGED <<input, elem, target, result>>
    /\ UNCHANGED <<decoderVars, given>>

\* Lines 115-120: an end tag ends this level.
ParseNodesEndTag ==
    /\ AtEndTag
    /\ stack' = WithSpace(stack)
    /\ offset' = advance(advance_while(advance(AfterSpace, 2),
                                       [c \in Chars |-> c # ">"]), 1)
    /\ pc' = "return"
    /\ UNCHANGED <<input, elem, target, result>>
    /\ UNCHANGED <<decoderVars, given>>

\* Lines 121-143: a processing instruction, a comment, a CDATA-like section
\* or another declaration; the first three go on in advance_until.
ParseNodesMarkup ==
    /\ AtMarkup
    /\ LET o1 == advance(AfterSpace, 1)
           o2 == advance(o1, 1)
       IN  CASE next(o1) = "?" ->
                     /\ offset' = o2
                     /\ target' = <<"?", ">">>
                     /\ pc' = "advance_until"
                [] next(o1) = "!" /\ next(o2) = "-" ->
                     /\ offset' = advance(o2, 2)
                     /\ target' = <<"-", "-", ">">>
                     /\ pc' = "advance_until"
                [] next(o1) = "!" /\ next(o2) = "[" ->
                     /\ offset' = advance(o2, 1)
                     /\ target' = <<"]", "]", ">">>
                     /\ pc' = "advance_until"
                [] OTHER ->
                     /\ offset' = advance(advance_while(o2, [c \in Chars |-> c # ">"]), 1)
                     /\ target' = target
                     /\ pc' = "parse_nodes"
    /\ stack' = WithSpace(stack)
    /\ UNCHANGED <<input, elem, result>>
    /\ UNCHANGED <<decoderVars, given>>

\* Line 144 and parse_element's lines 84-86: the name of an element.
ParseNodesElement ==
    /\ AtElement
    /\ LET o1 == advance(AfterSpace, 1)
           o2 == advance_while(o1, [c \in Chars |-> c # ">" /\ c # "/" /\ ~is_whitespace(c)])
       IN  /\ elem' = [offset |-> o1, name |-> Slice(o1, o2),
                       attributes |-> EmptyAttributes]
           /\ offset' = o2
    /\ stack' = WithSpace(stack)
    /\ pc' = "parse_attributes"
    /\ UNCHANGED <<input, target, result>>
    /\ UNCHANGED <<decoderVars, given>>

\* Lines 147-150: a run of text, up to the next '<'.
ParseNodesText ==
    /\ AtText
    /\ LET o == advance_while(AfterSpace, [c \in Chars |-> c # "<"])
       IN  /\ stack' = PushNode(stack, text(Slice(offset, o), offset))
           /\ offset' = o
    /\ UNCHANGED <<input, pc, elem, target, result>>
    /\ UNCHANGED <<decoderVars, given>>

(***************************************************************************)
(* XmlParser::advance_until, called with a non-empty target.               *)
(***************************************************************************)
\* Lines 48-54: one iteration; on a match, the break and line 55.
AdvanceUntilIter ==
    /\ pc = "advance_until"
    /\ ~eof(offset)
    /\ LET o1 == advance(offset, 1)
           o2 == advance_while(o1, [c \in Chars |-> c # Head(target)])
       IN  IF starts_with(o2, target)
           THEN /\ offset' = advance(o2, Len(target))
                /\ target' = <<>>
                /\ pc' = "parse_nodes"
           ELSE /\ offset' = o2
                /\ target' = target
                /\ pc' = "advance_until"
    /\ UNCHANGED <<input, stack, elem, result>>
    /\ UNCHANGED <<decoderVars, given>>

\* Line 48 (the loop's condition fails) and line 55.
AdvanceUntilExit ==
    /\ pc = "advance_until"
    /\ eof(offset)
    /\ offset' = advance(offset, Len(target))
    /\ target' = <<>>
    /\ pc' = "parse_nodes"
    /\ UNCHANGED <<input, stack, elem, result>>
    /\ UNCHANGED <<decoderVars, given>>

(***************************************************************************)
(* XmlParser::parse_attributes.                                            *)
(***************************************************************************)
\* Line 62: the offset after the white space at the start of an iteration.
AttrStart == advance_while(offset, [c \in Chars |-> is_whitespace(c)])

\* Lines 61 and 63-65: another attribute, or the end of the list.
AtAttribute ==
    pc = "parse_attributes" /\ ~eof(offset) /\ next(AttrStart) \notin {">", "/", None}

AtAttributesExit ==
    pc = "parse_attributes" /\ (eof(offset) \/ next(AttrStart) \in {">", "/", None})

\* Lines 66-76: one attribute.
ParseAttributesIter ==
    /\ AtAttribute
    /\ LET k1 == advance_while(AttrStart, [c \in Chars |-> c # "="])
           key == Slice(AttrStart, k1)
           q0 == advance_while(k1, [c \in Chars |-> c # "\"" /\ c # "'"])
           quote == IF next(q0) = None THEN "\"" ELSE next(q0)
           v0 == advance(q0, 1)
           v1 == advance_while(v0, [c \in Chars |-> c # quote])
           value == Slice(v0, v1)
       IN  /\ elem' = [elem EXCEPT !.attributes = Insert(@, key, value)]
           /\ offset' = advance(v1, 1)
    /\ UNCHANGED <<input, pc, stack, target, result>>
    /\ UNCHANGED <<decoderVars, given>>

\* Line 61 (the loop's condition fails) and line 64 (break).
ParseAttributesExit ==
    /\ AtAttributesExit
    /\ offset' = AttrStart
    /\ pc' = "parse_element"
    /\ UNCHANGED <<input, stack, elem, target, result>>
    /\ UNCHANGED <<decoderVars, given>>

(***************************************************************************)
(* XmlParser::parse_element, after the attributes.                         *)
(***************************************************************************)
\* Lines 90-93: a self-closing element.
ParseElementEmpty ==
    /\ pc = "parse_element"
    /\ next(offset) = "/"
    /\ offset' = advance(offset, 2)
    /\ stack' = PushNode(stack, element(elem.name, elem.offset - 1,
                                        elem.attributes, <<>>))
    /\ elem' = NoElem
    /\ pc' = "parse_nodes"
    /\ UNCHANGED <<input, target, result>>
    /\ UNCHANGED <<decoderVars, given>>

\* Lines 94-96: the children are parsed by a new parse_nodes.
ParseElementOpen ==
    /\ pc = "parse_element"
    /\ next(offset) = ">"
    /\ offset' = advance(offset, 1)
    /\ stack' = Append(stack, [nodes |-> <<>>, caller |-> elem])
    /\ elem' = NoElem
    /\ pc' = "parse_nodes"
    /\ UNCHANGED <<input, target, result>>
    /\ UNCHANGED <<decoderVars, given>>

\* Line 99: the input ended inside the tag, and nothing is pushed.
ParseElementDropped ==
    /\ pc = "parse_element"
    /\ next(offset) \notin {"/", ">"}
    /\ elem' = NoElem
    /\ pc' = "parse_nodes"
    /\ UNCHANGED <<input, offset, stack, target, result>>
    /\ UNCHANGED <<decoderVars, given>>

\* Line 97: the children's parse_nodes returned to parse_element.
ParseElementClose ==
    /\ pc = "return"
    /\ Len(stack) > 1
    /\ LET top == stack[Len(stack)]
       IN  stack' = PushNode(SubSeq(stack, 1, Len(stack) - 1),
                             element(top.caller.name, top.caller.offset - 1,
                                     top.caller.attributes, top.nodes))
    /\ pc' = "parse_nodes"
    /\ UNCHANGED <<input, offset, elem, target, result>>
    /\ UNCHANGED <<decoderVars, given>>

(***************************************************************************)
(* XmlParser::parse.                                                       *)
(***************************************************************************)
RootName == <<"r", "o", "o", "t">>

\* A parse that wraps whatever parse_nodes returned.
ParseResultAlwaysWrapped(nodes) ==
    element(RootName, 0, EmptyAttributes, nodes)

\* Lines 159-163, on the nodes the top-level parse_nodes returned.
ParseResult(nodes) ==
    IF Len(nodes) = 1
    THEN nodes[1]
    ELSE element(RootName, 0, EmptyAttributes, nodes)

Parse ==
    /\ pc = "return"
    /\ Len(stack) = 1
    /\ result' = ParseResult(stack[1].nodes)
    /\ pc' = "done"
    /\ UNCHANGED <<input, offset, stack, elem, target>>
    /\ UNCHANGED <<decoderVars, given>>

ParserNext ==
    \/ ParseNodesExit
    \/ ParseNodesEndTag
    \/ ParseNodesMarkup
    \/ ParseNodesElement
    \/ ParseNodesText
    \/ AdvanceUntilIter
    \/ AdvanceUntilExit
    \/ ParseAttributesIter
    \/ ParseAttributesExit
    \/ ParseElementEmpty
    \/ ParseElementOpen
    \/ ParseElementDropped
    \/ ParseElementClose
    \/ Parse

(***************************************************************************)
(* decode_entities.                                                        *)
(***************************************************************************)
\* CHARACTER_ENTITIES: some of the entries of the `entities` crate's table,
\* one of them a key without ';'.
EntityKeys ==
    {<<"&", "a", "m", "p", ";">>, <<"&", "l", "t", ";">>,
     <<"&", "g", "t", ";">>, <<"&", "a", "m", "p">>}

Expansion(key) ==
    CASE key = <<"&", "a", "m", "p", ";">> -> <<"&">>
      [] key = <<"&", "l", "t", ";">> -> <<"<">>
      [] key = <<"&", "g", "t", ";">> -> <<">">>
      [] key = <<"&", "a", "m", "p">> -> <<"&">>

\* str::find: the index of the first `c` after the first `from` characters
\* of `s`, or 0 when there is none.
Find(s, c, from) ==
    LET at == {j \in (from + 1)..Len(s) : s[j] = c}
    IN  IF at = {} THEN 0 ELSE CHOOSE j \in at : \A m \in at : j <= m

\* char::to_digit in a radix of at most 16; -1 (for None) when `c` is no digit of it.
to_digit(c, radix) ==
    LET lower == <<"0", "1", "2", "3", "4", "5", "6", "7", "8", "9",
                   "a", "b", "c", "d", "e", "f">>
        upper == <<"0", "1", "2", "3", "4", "5", "6", "7", "8", "9",
                   "A", "B", "C", "D", "E", "F">>
        at == {j \in 1..radix : lower[j] = c \/ upper[j] = c}
    IN  IF at = {} THEN -1 ELSE (CHOOSE j \in at : TRUE) - 1

\* The Err of u32::from_str_radix.
ParseErr == [hi |-> -1, lo |-> -1]

RECURSIVE Accumulate(_, _, _, _, _)
\* The digits from the i-th on, added to the u32 whose halves are hi and lo
\* (hi * 65536 + lo), with checked_mul and checked_add: ParseErr on a
\* character that is no digit and on overflow.
Accumulate(digits, i, hi, lo, radix) ==
    IF i > Len(digits) THEN [hi |-> hi, lo |-> lo]
    ELSE LET d == to_digit(digits[i], radix)
             lo1 == lo * radix + d
             hi1 == hi * radix + (lo1 \div 65536)
         IN  IF d = -1 THEN ParseErr
             ELSE IF hi1 >= 65536 THEN ParseErr
             ELSE Accumulate(digits, i + 1, hi1, lo1 % 65536, radix)

\* u32::from_str_radix: an optional '+', then at least one digit.
from_str_radix(src, radix) ==
    LET digits == IF src # <<>> /\ Head(src) = "+" THEN Tail(src) ELSE src
    IN  IF digits = <<>> THEN ParseErr ELSE Accumulate(digits, 1, 0, 0, radix)

\* A u32::from_str_radix that takes digits only.
from_str_radix_digits_only(src, radix) ==
    IF src = <<>> THEN ParseErr ELSE Accumulate(src, 1, 0, 0, radix)

\* The printable ASCII characters, from U+0020 to U+007E (U+0060, which a
\* string of this language cannot hold, by its name).
Printable ==
    <<" ", "!", "\"", "#", "$", "%", "&", "'", "(", ")", "*", "+", ",", "-", ".", "/",
      "0", "1", "2", "3", "4", "5", "6", "7", "8", "9", ":", ";", "<", "=", ">", "?",
      "@", "A", "B", "C", "D", "E", "F", "G", "H", "I", "J", "K", "L", "M", "N", "O",
      "P", "Q", "R", "S", "T", "U", "V", "W", "X", "Y", "Z", "[", "\\", "]", "^", "_",
      "U+96", "a", "b", "c", "d", "e", "f", "g", "h", "i", "j", "k", "l", "m", "n", "o",
      "p", "q", "r", "s", "t", "u", "v", "w", "x", "y", "z", "{", "|", "}", "~">>

\* The character of a code point: the model's own character where it has
\* one, and otherwise a name made of the code point.
CharOf(v) ==
    CASE v \in 32..126 -> Printable[v - 31]
      [] v = 9 -> "\t"
      [] v = 10 -> "\n"
      [] v = 13 -> "\r"
      [] v = 160 -> NBSP
      [] OTHER -> "U+" \o ToString(v)

\* char::from_u32: None for a surrogate and above U+10FFFF.
from_u32(n) ==
    IF n.hi > 16 \/ (n.hi = 0 /\ n.lo \in 55296..57343)
    THEN None
    ELSE CharOf(n.hi * 65536 + n.lo)

\* Lines 189-206: what is pushed for the text from a '&' to the next ';'.
Replacement(span) ==
    IF span \in EntityKeys THEN Expansion(span)
    ELSE IF span[2] = "#"
    THEN LET radix == IF span[3] = "x" THEN 16 ELSE 10
             drift_index == 2 + radix \div 16
             n == from_str_radix(SubSeq(span, drift_index + 1, Len(span) - 1), radix)
             ch == IF n = ParseErr THEN None ELSE from_u32(n)
         IN  IF ch # None THEN <<ch>> ELSE span
    ELSE span

\* Lines 178-180: nothing to decode, the text is returned as it is.
DecodeBorrowed ==
    /\ dpc = "start"
    /\ Find(dtext, "&", 0) = 0
    /\ decoded' = dtext
    /\ dpc' = "done"
    /\ UNCHANGED <<dtext, cursor, buf, given>>
    /\ UNCHANGED parserVars

\* Lines 182-183.
DecodeOwned ==
    /\ dpc = "start"
    /\ Find(dtext, "&", 0) # 0
    /\ cursor' = 0
    /\ buf' = <<>>
    /\ dpc' = "loop"
    /\ UNCHANGED <<dtext, decoded, given>>
    /\ UNCHANGED parserVars

\* Lines 185-207: an iteration that finds a '&' and a ';' after it.
DecodeReference ==
    /\ dpc = "loop"
    /\ Find(dtext, "&", cursor) # 0
    /\ Find(dtext, ";", Find(dtext, "&", cursor)) # 0
    /\ LET start == Find(dtext, "&", cursor)
           end == Find(dtext, ";", start)
       IN  /\ buf' = buf \o SubSeq(dtext, cursor + 1, start - 1)
                         \o Replacement(SubSeq(dtext, start, end))
           /\ cursor' = end
    /\ UNCHANGED <<dtext, dpc, decoded, given>>
    /\ UNCHANGED parserVars

\* Lines 185-188 and 208-210: a '&' with no ';' after it ends the loop.
DecodeUnterminated ==
    /\ dpc = "loop"
    /\ Find(dtext, "&", cursor) # 0
    /\ Find(dtext, ";", Find(dtext, "&", cursor)) = 0
    /\ buf' = buf \o SubSeq(dtext, cursor + 1, Find(dtext, "&", cursor) - 1)
    /\ cursor' = Find(dtext, "&", cursor) - 1
    /\ dpc' = "rest"
    /\ UNCHANGED <<dtext, decoded, given>>
    /\ UNCHANGED parserVars

\* Lines 213-214, after the loop ended for want of a '&' or by the break.
DecodeReturn ==
    /\ \/ dpc = "loop" /\ Find(dtext, "&", cursor) = 0
       \/ dpc = "rest"
    /\ buf' = buf \o SubSeq(dtext, cursor + 1, Len(dtext))
    /\ decoded' = buf'
    /\ cursor' = Len(dtext)
    /\ dpc' = "done"
    /\ UNCHANGED <<dtext, given>>
    /\ UNCHANGED parserVars

DecoderNext ==
    \/ DecodeBorrowed
    \/ DecodeOwned
    \/ DecodeReference
    \/ DecodeUnterminated
    \/ DecodeReturn

(***************************************************************************)
(* The inputs of the parser: four families of buffers.  `given` records    *)
(* how the buffer was put together; the parser never reads it.             *)
(***************************************************************************)
MaxLen == 4
MaxAttrs == 2
MaxBody == 2
MaxTokens == 4

SeqsUpTo(S, n) == UNION {[1..k -> S] : k \in 0..n}

RECURSIVE Concat(_)
Concat(ss) == IF ss = <<>> THEN <<>> ELSE Head(ss) \o Concat(Tail(ss))

\* Every buffer of at most MaxLen characters of the alphabet.
GeneralAlphabet == {"<", ">", "/", "a", " ", "=", "\"", "!"}

GeneralInputs == SeqsUpTo(GeneralAlphabet, MaxLen)

\* A tag <a item ... item> or <a item ... item/>, each item key=QvalueQ.
AttrKeys == {<<"b">>, <<"d", "'">>, <<"/", "b">>}

OtherQuote(q) == IF q = "\"" THEN "'" ELSE "\""

AttrValues(q) == {<<>>, <<OtherQuote(q), ">", "/">>, <<"=", " ", "c">>}

AttrItems ==
    UNION {[key : AttrKeys, quote : {q}, value : AttrValues(q)] : q \in {"\"", "'"}}

ItemText(it) == <<" ">> \o it.key \o <<"=", it.quote>> \o it.value \o <<it.quote>>

RECURSIVE ItemsText(_)
ItemsText(items) ==
    IF items = <<>> THEN <<>> ELSE ItemText(Head(items)) \o ItemsText(Tail(items))

AttrGiven ==
    [family : {"attr"}, items : SeqsUpTo(AttrItems, MaxAttrs),
     ending : {<<">">>, <<"/", ">">>}]

AttrText(g) == <<"<", "a">> \o ItemsText(g.items) \o g.ending

\* An opener, a body, a terminator or none, and what follows.
Terminator(opener) ==
    CASE opener = <<"<", "!", "-", "-">> -> <<"-", "-", ">">>
      [] opener = <<"<", "?">> -> <<"?", ">">>
      [] opener = <<"<", "!", "[">> -> <<"]", "]", ">">>

Openers == {<<"<", "!", "-", "-">>, <<"<", "?">>, <<"<", "!", "[">>}

BodyAlphabet == {"-", ">", "x", "?", "]"}

SkipGiven ==
    [family : {"skip"}, opener : Openers, body : SeqsUpTo(BodyAlphabet, MaxBody),
     closed : BOOLEAN, follow : {<<>>, <<"<", "a", "/", ">">>}]

SkipText(g) ==
    g.opener \o g.body \o (IF g.closed THEN Terminator(g.opener) ELSE <<>>) \o g.follow

\* Start tags, end tags, text and white space, in any order.
TreeTokens ==
    {<<"<", "a", ">">>, <<"<", "/", "a", ">">>, <<"<", "/", "b", ">">>,
     <<"<", "b", "/", ">">>, <<"t">>, <<NBSP>>}

TreeInputs == {Concat(ts) : ts \in SeqsUpTo(TreeTokens, MaxTokens)}

\* The buffer and the record of how it was put together.
ParserInput ==
    \/ given = [family |-> "general"] /\ input \in GeneralInputs
    \/ given \in AttrGiven /\ input = AttrText(given)
    \/ given \in SkipGiven /\ input = SkipText(given)
    \/ given = [family |-> "tree"] /\ input \in TreeInputs

DecoderIdle ==
    /\ dtext = <<>>
    /\ cursor = 0
    /\ buf = <<>>
    /\ dpc = "idle"
    /\ decoded = None

\* XmlParser::new, and parse's call of parse_nodes (line 158).
Init ==
    /\ ParserInput
    /\ offset = 0
    /\ pc = "parse_nodes"
    /\ stack = <<[nodes |-> <<>>, caller |-> NoElem]>>
    /\ elem = NoElem
    /\ target = <<>>
    /\ result = None
    /\ DecoderIdle

Next == ParserNext

Spec == Init /\ [][Next]_vars

(***************************************************************************)
(* The inputs of the decoder: texts made of a few pieces, and numeric      *)
(* references &#...; and &#x...; whose bodies are made of a few pieces.    *)
(***************************************************************************)
MaxPieces == 5
MaxChunks == 3

Pieces ==
    {<<"&">>, <<";">>, <<"#">>, <<"x">>, <<"+">>, <<"a", "m", "p">>, <<"l", "t">>,
     <<"3", "8">>, <<"3", "E">>, <<" ", "b">>}

PiecesTexts == {Concat(ps) : ps \in SeqsUpTo(Pieces, MaxPieces)}

Chunks ==
    {<<"0">>, <<"1">>, <<"6">>, <<"F">>, <<"d", "8">>, <<"0", "0">>,
     <<"F", "F", "F", "F">>, <<"4", "2", "9", "4", "9", "6", "7", "2", "9">>,
     <<"+">>, <<"-">>}

NumericTexts ==
    {<<"&", "#">> \o x \o Concat(cs) \o <<";">> :
        x \in {<<>>, <<"x">>}, cs \in SeqsUpTo(Chunks, MaxChunks)}

\* The text and the record of how it was put together.
DecoderInput ==
    \/ given = [family |-> "pieces"] /\ dtext \in PiecesTexts
    \/ given = [family |-> "numeric"] /\ dtext \in NumericTexts

ParserIdle ==
    /\ input = <<>>
    /\ offset = 0
    /\ pc = "idle"
    /\ stack = <<>>
    /\ elem = NoElem
    /\ target = <<>>
    /\ result = None

\* decode_entities is called with a text.
InitDecode ==
    /\ DecoderInput
    /\ cursor = 0
    /\ buf = <<>>
    /\ dpc = "start"
    /\ decoded = None
    /\ ParserIdle

SpecDecode == InitDecode /\ [][DecoderNext]_vars

(***************************************************************************)
(* Trees.                                                                  *)
(***************************************************************************)
Range(f) == {f[i] : i \in DOMAIN f}

RECURSIVE Descendants(_)
\* A node and every node below it.
Descendants(n) ==
    {n} \cup (IF n.kind = "Element"
              THEN UNION {Descendants(c) : c \in Range(n.children)}
              ELSE {})

\* Every node built so far, at every depth.
BuiltNodes == UNION {Descendants(n) : n \in UNION {Range(f.nodes) : f \in Range(stack)}}

\* Every node of the tree parse returned, the synthesized root left out.
ResultNodes ==
    IF Len(stack[1].nodes) = 1
    THEN Descendants(result)
    ELSE UNION {Descendants(c) : c \in Range(result.children)}

\* The byte offset just past the first '>' at or after byte `off`, or the end.
PastNextGt(off) ==
    LET at == {j \in (CharIndex(off) + 1)..Len(input) : input[j] = ">"}
    IN  IF at = {} THEN ByteLen(input)
        ELSE SumLen(input, 1, CHOOSE j \in at : \A m \in at : j <= m)

(***************************************************************************)
(* C1.  parse ends on every input, with a Node and without a panic.        *)
(***************************************************************************)
PcRank ==
    CASE pc \in {"advance_until", "parse_attributes"} -> 4
      [] pc = "parse_element" -> 3
      [] pc = "parse_nodes" -> 2
      [] pc = "return" -> 1
      [] OTHER -> 0

\* Decreases at every step of the parser, and is never negative.
Variant ==
    ((ByteLen(input) - offset) * (Len(input) + 2) + Len(stack)) * 5 + PcRank

\* No slice of the code is out of range or off a character boundary, and
\* `offset - 1` (lines 92 and 97) does not underflow.
C1_NoPanic ==
    /\ offset <= ByteLen(input)
    /\ is_char_boundary(offset)
    /\ pc \in {"parse_attributes", "parse_element"} => elem.offset >= 1
    /\ \A i \in 2..Len(stack) : stack[i].caller.offset >= 1

\* The guard of some action holds.
StepPossible ==
    \/ AtNodesExit \/ AtEndTag \/ AtMarkup \/ AtElement \/ AtText
    \/ pc = "advance_until"
    \/ AtAttribute \/ AtAttributesExit
    \/ pc = "parse_element"
    \/ pc = "return" /\ Len(stack) >= 1

C1_Returns ==
    /\ pc # "done" => StepPossible
    /\ pc = "done" => result.kind \in {"Element", "Text", "Whitespace"}

\* An iteration of one of the three loops moves the cursor forward or leaves the loop.
C1_LoopProgress ==
    /\ pc = "parse_nodes" /\ pc' # "return" => offset' > offset
    /\ pc = "parse_attributes" /\ pc' # "parse_element" => offset' > offset
    /\ pc = "advance_until" /\ pc' = "advance_until" => offset' > offset

\* C1: on every input, well-formed or not, parse terminates and returns a
\* Node without a panic: the cursor stays within the buffer and on a
\* character boundary, every loop iteration moves it forward or exits, a
\* non-negative variant decreases at every step, and a step is possible
\* until parse has returned.
C1_ParseTerminates ==
    /\ [](C1_NoPanic /\ C1_Returns /\ Variant >= 0)
    /\ [][C1_LoopProgress /\ Variant' < Variant]_vars

\* A tag cut short by the end of the input: it is dropped and parse returns.
C1_Witness ==
    /\ pc = "done"
    /\ input = <<"<", "a", " ", "=">>
    /\ offset = 4
    /\ result = element(RootName, 0, EmptyAttributes, <<>>)

(***************************************************************************)
(* C2.  Offsets.                                                           *)
(***************************************************************************)
OffsetOk(n) ==
    /\ is_char_boundary(n.offset)
    /\ IF n.kind = "Element"
       THEN starts_with(n.offset, <<"<">> \o n.name)
       ELSE starts_with(n.offset, n.text)

\* C2: every node but the synthesized root carries the byte offset of its
\* start: an Element's offset is at a '<' followed by its name, a Text or
\* Whitespace node's content is the buffer's slice at its offset.  This
\* holds of every node while the tree is built and of the tree returned.
C2_OffsetsPointAtSource ==
    /\ \A n \in BuiltNodes : OffsetOk(n)
    /\ pc = "done" => \A n \in ResultNodes : OffsetOk(n)

\* A nested element after a two-byte white space.
C2_Witness ==
    /\ pc = "done"
    /\ input = <<"<", "a", ">", NBSP, "<", "b", "/", ">">>
    /\ result.kind = "Element"
    /\ result.offset = 0
    /\ result.children[1] = whitespace(<<NBSP>>, 3)
    /\ result.children[2] = element(<<"b">>, 5, EmptyAttributes, <<>>)

(***************************************************************************)
(* C5.  The single node, or the synthesized root.                          *)
(***************************************************************************)
\* C5: parse returns the only top-level node itself when there is exactly
\* one, and otherwise an Element "root" at offset 0, without attributes,
\* whose children are the top-level nodes in their order.
C5_SingleNodeOrRoot ==
    pc = "done" =>
        LET nodes == stack[1].nodes
        IN  IF Len(nodes) = 1
            THEN result = nodes[1]
            ELSE /\ result.kind = "Element"
                 /\ result.name = <<"r", "o", "o", "t">>
                 /\ result.offset = 0
                 /\ DOMAIN result.attributes = {}
                 /\ result.children = nodes

\* Two top-level nodes, wrapped in their order.
C5_Witness ==
    /\ pc = "done"
    /\ input = <<"t", "<", "b", "/", ">">>
    /\ result.name = <<"r", "o", "o", "t">>
    /\ Len(result.children) = 2
    /\ result.children[1].kind = "Text"
    /\ result.children[2].kind = "Element"

(***************************************************************************)
(* C8.  Whitespace nodes and Text nodes.                                   *)
(***************************************************************************)
KindOk(n) ==
    CASE n.kind = "Whitespace" ->
             /\ n.text # <<>>
             /\ \A c \in Range(n.text) : is_whitespace(c)
             /\ next(n.offset + ByteLen(n.text)) = "<"
      [] n.kind = "Text" ->
             /\ \E c \in Range(n.text) : ~is_whitespace(c)
             /\ "<" \notin Range(n.text)
             /\ Slice(n.offset, n.offset + ByteLen(n.text)) = n.text
             /\ next(n.offset + ByteLen(n.text)) \in {"<", None}
      [] OTHER -> TRUE

\* C8: a Whitespace node is a non-empty run of white space followed by
\* '<'; a Text node has a character that is not white space, has no '<',
\* is the raw slice of the buffer and ends at the next '<' or at the end.
C8_WhitespaceAndTextDistinct ==
    /\ \A n \in BuiltNodes : KindOk(n)
    /\ pc = "done" => \A n \in ResultNodes : KindOk(n)

\* White space between tags, and text after them.
C8_Witness ==
    /\ pc = "done"
    /\ input = <<"<", "a", ">", NBSP, "<", "/", "a", ">", "t">>
    /\ result.children[1].children = <<whitespace(<<NBSP>>, 3)>>
    /\ result.children[2] = text(<<"t">>, 9)

(***************************************************************************)
(* C10.  End tags and the end of the input close the open element.         *)
(***************************************************************************)
\* An end tag, whatever its name, ends the level: the cursor goes just past
\* its '>' (or to the end) and the level gets no further node.
C10_EndTagStep ==
    (pc = "parse_nodes" /\ ~eof(offset) /\ starts_with(AfterSpace, <<"<", "/">>)) =>
        /\ pc' = "return"
        /\ offset' = PastNextGt(AfterSpace)
        /\ Len(stack') = Len(stack)
        /\ \A i \in 1..(Len(stack) - 1) : stack'[i] = stack[i]
        /\ SubSeq(stack'[Len(stack)].nodes, 1, Len(stack[Len(stack)].nodes))
               = stack[Len(stack)].nodes
        /\ \A i \in (Len(stack[Len(stack)].nodes) + 1)..Len(stack'[Len(stack)].nodes) :
               stack'[Len(stack)].nodes[i].kind = "Whitespace"

\* The end of the input ends the level as well.
C10_EndOfInputStep ==
    (pc = "parse_nodes" /\ eof(offset)) => (pc' = "return" /\ stack' = stack)

\* A level that ended inside an open element closes the innermost one: the
\* element is emitted with the children collected, as the next node of the
\* level above, where parsing goes on.
C10_CloseStep ==
    (pc = "return" /\ Len(stack) > 1) =>
        LET d == Len(stack)
            above == stack[d - 1].nodes
        IN  /\ pc' = "parse_nodes"
            /\ offset' = offset
            /\ Len(stack') = d - 1
            /\ \A i \in 1..(d - 2) : stack'[i] = stack[i]
            /\ Len(stack'[d - 1].nodes) = Len(above) + 1
            /\ SubSeq(stack'[d - 1].nodes, 1, Len(above)) = above
            /\ LET e == stack'[d - 1].nodes[Len(above) + 1]
               IN  /\ e.kind = "Element"
                   /\ e.name = stack[d].caller.name
                   /\ e.children = stack[d].nodes

\* C10: an end tag ends the node sequence of its level whatever its name,
\* with the cursor just past its '>'; the innermost open element is then
\* emitted with the children collected so far and the following nodes are
\* its siblings; the end of the input closes the open elements the same way.
C10_EndTagClosesInnermost ==
    [][C10_EndTagStep /\ C10_EndOfInputStep /\ C10_CloseStep]_vars

\* <a>t</b>t: the end tag of another name closes a, and the text after it is a's sibling.
C10_Witness ==
    /\ pc = "done"
    /\ input = <<"<", "a", ">", "t", "<", "/", "b", ">", "t">>
    /\ result.children[1] = element(<<"a">>, 0, EmptyAttributes, <<text(<<"t">>, 3)>>)
    /\ result.children[2] = text(<<"t">>, 8)

(***************************************************************************)
(* C7.  Attributes.                                                        *)
(***************************************************************************)
\* The mapping a list of items stands for: every key that occurs, with the
\* value of its last occurrence.
LastWins(items) ==
    [k \in {items[i].key : i \in DOMAIN items} |->
        LET last == CHOOSE i \in DOMAIN items :
                        /\ items[i].key = k
                        /\ \A j \in DOMAIN items : items[j].key = k => j <= i
        IN  items[last].value]

\* What C7 says of a tag of the attribute family, once parse_attributes is done.
AttributesAsGiven ==
    /\ elem.attributes = LastWins(given.items)
    /\ offset = ByteLen(<<"<", "a">> \o ItemsText(given.items))
    /\ next(offset) = Head(given.ending)

\* No key begins with '/', '>' or white space.
KeysStartPlain(items) ==
    \A i \in DOMAIN items :
        items[i].key # <<>> =>
            /\ Head(items[i].key) \notin {"/", ">"}
            /\ ~is_whitespace(Head(items[i].key))

\* C7 as claimed: for a tag whose attribute list is a sequence of items
\* key=QvalueQ (no '=' in a key, no Q in its value), the attributes are
\* the keys that occur, each with the value of its last occurrence, and the
\* cursor is left at the closing '/' or '>'.
C7_AttributesAnyKey ==
    (pc = "parse_element" /\ given.family = "attr") => AttributesAsGiven

\* C7 amended: the same, for keys that do not begin with '/', '>' or white space.
C7_AttributesLastWins ==
    (pc = "parse_element" /\ given.family = "attr" /\ KeysStartPlain(given.items))
        => AttributesAsGiven

\* A key given twice, with two quote characters: the second value stays.
C7_Witness ==
    /\ pc = "parse_element"
    /\ given.family = "attr"
    /\ given.items = <<[key |-> <<"b">>, quote |-> "'", value |-> <<"\"", ">", "/">>],
                       [key |-> <<"b">>, quote |-> "\"", value |-> <<"=", " ", "c">>]>>
    /\ elem.attributes = [k \in {<<"b">>} |-> <<"=", " ", "c">>]
    /\ next(offset) = "/"

(***************************************************************************)
(* C9.  Comments, processing instructions and CDATA-like sections.         *)
(***************************************************************************)
\* The byte offset just past the first occurrence of `t` that starts at or
\* after byte `off`, or the end of the input when there is none.
PastFirst(t, off) ==
    LET at == {j \in (CharIndex(off) + 1)..(Len(input) - Len(t) + 1) :
                   SubSeq(input, j, j + Len(t) - 1) = t}
    IN  IF at = {} THEN ByteLen(input)
        ELSE SumLen(input, 1, (CHOOSE j \in at : \A m \in at : j <= m) + Len(t) - 1)

\* C9 as claimed: whatever the body, the empty one included, the construct
\* gives no node and parsing resumes right after the first terminator that
\* follows the opener, or at the end of the input when none follows.
C9_SkippedToTerminator ==
    [][(given.family = "skip" /\ pc = "advance_until" /\ pc' = "parse_nodes") =>
          /\ offset' = PastFirst(Terminator(given.opener), ByteLen(given.opener))
          /\ stack' = stack]_vars

\* What the code does: the same, unless the terminator comes right after the opener.
SkippedWhenBodyNotEmpty ==
    [][(given.family = "skip"
            /\ ~starts_with(ByteLen(given.opener), Terminator(given.opener))
            /\ pc = "advance_until" /\ pc' = "parse_nodes") =>
          /\ offset' = PastFirst(Terminator(given.opener), ByteLen(given.opener))
          /\ stack' = stack]_vars

(***************************************************************************)
(* C3.  Every reference that is a key of the table is expanded.            *)
(***************************************************************************)
\* The keys of the form &name; that occur in `t` at its i-th character.
KeysAt(t, i) ==
    {k \in EntityKeys :
        /\ k[Len(k)] = ";"
        /\ i + Len(k) - 1 <= Len(t)
        /\ SubSeq(t, i, i + Len(k) - 1) = k}

RECURSIVE ExpandKeys(_, _)
\* `t` from its i-th character on, every occurrence of a key replaced by
\* the key's expansion and everything else copied.
ExpandKeys(t, i) ==
    IF i > Len(t) THEN <<>>
    ELSE IF KeysAt(t, i) # {}
    THEN LET k == CHOOSE x \in KeysAt(t, i) : TRUE
         IN  Expansion(k) \o ExpandKeys(t, i + Len(k))
    ELSE <<t[i]>> \o ExpandKeys(t, i + 1)

\* C3 as claimed: in a text without numeric references, every occurrence
\* of a key &name; is replaced by its expansion, whatever precedes or
\* follows it, and the rest is copied unchanged.
C3_EveryKeyExpanded ==
    (dpc = "done" /\ "#" \notin Range(dtext)) => decoded = ExpandKeys(dtext, 1)

(***************************************************************************)
(* C6.  Numeric references.                                                *)
(***************************************************************************)
\* The characters of a reference &#...; or &#x...; between the '#' (or the
\* 'x') and the ';'.
NumericBody(span) ==
    SubSeq(span, IF span[3] = "x" THEN 4 ELSE 3, Len(span) - 1)

NumericRadix(span) == IF span[3] = "x" THEN 16 ELSE 10

\* &#, digits of the base, ';', the digits the number of a Unicode scalar value.
ValidNumericReference(span) ==
    /\ Len(span) >= 4
    /\ span[1] = "&" /\ span[2] = "#" /\ span[Len(span)] = ";"
    /\ NumericBody(span) # <<>>
    /\ \A c \in Range(NumericBody(span)) : to_digit(c, NumericRadix(span)) # -1
    /\ LET n == from_str_radix_digits_only(NumericBody(span), NumericRadix(span))
       IN  n # ParseErr /\ from_u32(n) # None

NumericChar(span) ==
    from_u32(from_str_radix_digits_only(NumericBody(span), NumericRadix(span)))

\* C6 as claimed: a reference &#...; that is no key is replaced by the
\* character of its number when its body is made of digits of the base
\* (16 after 'x', else 10) and the number is a Unicode scalar value, and
\* is copied unchanged in every other case.
C6_NumericReferenceDecoded ==
    (dpc = "done" /\ given.family = "numeric") =>
        decoded = IF ValidNumericReference(dtext)
                  THEN <<NumericChar(dtext)>>
                  ELSE dtext

\* What the code does: the same, but for the bodies that begin with '+'.
NumericReferenceWithoutSign ==
    (dpc = "done" /\ given.family = "numeric"
        /\ ~(NumericBody(dtext) # <<>> /\ Head(NumericBody(dtext)) = "+")) =>
        decoded = IF ValidNumericReference(dtext)
                  THEN <<NumericChar(dtext)>>
                  ELSE dtext

(***************************************************************************)
(* C4.  A text with nothing to expand is returned unchanged.               *)
(***************************************************************************)
\* Every '&' of `t` has no ';' after it, or the text from it to the next
\* ';' is neither a key nor a valid numeric reference.
NothingToExpand(t) ==
    \A i \in 1..Len(t) :
        t[i] = "&" =>
            \/ Find(t, ";", i) = 0
            \/ LET span == SubSeq(t, i, Find(t, ";", i))
               IN  span \notin EntityKeys /\ ~ValidNumericReference(span)

\* C4 as claimed: decode_entities returns such a text unchanged.
C4_NothingToExpandUnchanged ==
    (dpc = "done" /\ NothingToExpand(dtext)) => decoded = dtext

\* What the code does: the same, for the texts without a '+'.
NothingToExpandWithoutSign ==
    (dpc = "done" /\ NothingToExpand(dtext) /\ "+" \notin Range(dtext))
        => decoded = dtext

====
